---- MODULE Spec2Model ----
(***************************************************************************)
(* License binding and validation protocol of the trading-robot back       *)
(* office: the License record (licenses/models.py), the bot validation     *)
(* endpoint (licenses/views.py, BotValidationAPIView.post) and the         *)
(* administrative writers of the License table (assign_configuration, the  *)
(* admin change form, cleanup_expired).                                    *)
(*                                                                         *)
(* The store is the License table.  Every request handler works on its own *)
(* in-memory copy of a row (a Django model instance) and writes it back    *)
(* with save(): a full save() writes every column of the copy, a           *)
(* save(update_fields=...) writes the named columns only.  No handler runs *)
(* in a transaction and none locks the row, so each store access is one    *)
(* step and steps of different handlers interleave.                        *)
(*                                                                         *)
(* A validation call takes three steps, one per store access: Receive (the *)
(* serializer, License.objects.get and the checks made on the copy, which  *)
(* touch nothing shared), BindReset (the daily reset with its partial      *)
(* save) and BindSave (the rest of bind_account with its full save, and    *)
(* the response).  Return hands the response over and frees the worker; it *)
(* touches nothing shared and is taken before any other step.              *)
(***************************************************************************)
EXTENDS Integers, Sequences, FiniteSets, TLC

(* ------------------------------ bounds --------------------------------- *)
\* validation requests received in one behaviour
MaxCalls == 2
\* activities beside the sequence of validation calls: validation requests
\* received while another one is in flight, and administrative operations
\* (assign_configuration, the change form, cleanup_expired)
MaxSide == 1
\* the clock runs from 0 to MaxTime
MaxTime == 1
\* validation requests received in one behaviour of SpecRepeat
MaxRepeat == 3

(* ----------------------------- value sets ------------------------------ *)
\* None in a nullable CharField / ForeignKey
NULL == "NULL"
\* None in a nullable DateTimeField
NoTime == -1
\* a request field that is absent from the request body
MISSING == "MISSING"

\* ticks of the clock per calendar day: timezone.now().date()
DayLen == 1
Date(t) == t \div DayLen

\* rows of the License table, by license_key
Licenses == {"K1", "K2"}
\* a well-formed key that names no row
UnknownKey == "K0"
SystemHashes == {"S1", "S2"}
AccountHashes == {"A1", "A2"}
Brokers == {"B1"}
\* License.ACCOUNT_TRADE_MODES: 0 Demo, 1 Restricted, 2 Live
ACCOUNT_TRADE_MODES == {0, 1, 2}
\* a value outside the choices, and the field absent from the body
BadMode == 3
MissingMode == -1
\* active TradingConfiguration rows; InactiveConfig is a row with is_active = False
Configs == {"C1"}
InactiveConfig == "CX"
\* expires_at of the two rows: one expires inside the modelled time, one never does
ExpiresSoon == 0
ExpiresLate == MaxTime + 1

VARIABLES
    db,        \* the License table: license_key -> row
    now,       \* timezone.now()
    pc,        \* per worker: position in BotValidationAPIView.post
    req,       \* per worker: the validated request fields the handler holds
    obj,       \* per worker: license_obj, the in-memory copy of the row
    bnow,      \* per worker: `now` of bind_account
    resp,      \* per worker: the Response returned
    seen,      \* per worker: the row as License.objects.get returned it (history variable)
    tchk,      \* per worker: the clock value the checks read (history variable)
    wrote,     \* per worker: this call has written to the store (history variable)
    succ,      \* per license: success responses returned so far (history variable)
    ftu,       \* per license: success responses with first_time_use = true (history variable)
    granted,   \* per license: system hashes answered with success (history variable)
    bound,     \* per license: <<system_hash, trade mode>> answered with success (history variable)
    calls,     \* validation requests received so far
    quota,     \* validation requests the behaviour may receive
    side,      \* overlapping validation requests and administrative operations so far
    apc,       \* administrative request: position
    alic,      \* administrative request: key of the row it works on
    aobj       \* administrative request: in-memory copy of the row

vars == <<db, now, pc, req, obj, bnow, resp, seen, tchk, wrote, succ, ftu,
          granted, bound, calls, quota, side, apc, alic, aobj>>

ghostVars == <<succ, ftu, granted, bound>>
botVars == <<pc, req, obj, bnow, resp, seen, tchk, wrote, ghostVars, calls,
             quota>>
adminVars == <<apc, alic, aobj>>

Workers == {"w1", "w2"}

(* ------------------------------ License -------------------------------- *)
\* a row as License.objects.create leaves it (the post_save signal has
\* assigned the default configuration)
NewLicense(expires, mode) ==
    [ system_hash           |-> NULL,
      account_hash          |-> NULL,
      account_hash_history  |-> << >>,
      broker_server         |-> NULL,
      account_trade_mode    |-> mode,
      expires_at            |-> expires,
      is_active             |-> TRUE,
      first_used_at         |-> NoTime,
      last_used_at          |-> NoTime,
      usage_count           |-> 0,
      daily_usage_count     |-> 0,
      last_reset_date       |-> Date(0),
      trading_configuration |-> "C1" ]

\* Python truthiness of a CharField value: None and '' are false
Truthy(s) == s # NULL /\ s # ""

\* mutant: the instant of expiry already counts as expired
is_expired_Inclusive(l, t) == t >= l.expires_at

\* License.is_expired
is_expired(l, t) == t > l.expires_at

\* mutant: a license without configuration counts as valid
is_valid_NoConfig(l, t) == l.is_active /\ ~ is_expired(l, t)

\* License.is_valid
is_valid(l, t) ==
    l.is_active /\ ~ is_expired(l, t) /\ l.trading_configuration # NULL

\* License.is_expiring_soon: expires within 30 days
is_expiring_soon(l, t) == t + 30 * DayLen > l.expires_at

\* mutant: the binding is reported before the expiry
status_BoundFirst(l, t) ==
    IF ~ l.is_active THEN "Inactive"
    ELSE IF ~ Truthy(l.system_hash) THEN "Not Bound"
    ELSE IF ~ Truthy(l.account_hash) THEN "Bound - No Login"
    ELSE IF is_expired(l, t) THEN "Expired"
    ELSE IF is_expiring_soon(l, t) THEN "Expiring Soon"
    ELSE "Active"

\* License.status
status(l, t) ==
    IF ~ l.is_active THEN "Inactive"
    ELSE IF is_expired(l, t) THEN "Expired"
    ELSE IF ~ Truthy(l.system_hash) THEN "Not Bound"
    ELSE IF ~ Truthy(l.account_hash) THEN "Bound - No Login"
    ELSE IF is_expiring_soon(l, t) THEN "Expiring Soon"
    ELSE "Active"

\* mutant: every system hash is authorized
validate_system_hash_Any(l, system_hash) == TRUE

\* License.validate_system_hash: the boolean of the returned pair
validate_system_hash(l, system_hash) ==
    IF ~ Truthy(l.system_hash) THEN TRUE
    ELSE l.system_hash = system_hash

\* mutant: the message names the hash the license is bound to
system_message_Leak(l, system_hash) ==
    IF ~ Truthy(l.system_hash) THEN "First time use - will bind account"
    ELSE IF l.system_hash = system_hash THEN "Account authorized"
    ELSE l.system_hash

\* License.validate_system_hash: the message of the returned pair
system_message(l, system_hash) ==
    IF ~ Truthy(l.system_hash) THEN "First time use - will bind account"
    ELSE IF l.system_hash = system_hash THEN "Account authorized"
    ELSE "Account not authorized - license bound to different trading account"

\* one entry of account_hash_history
HistoryEntry(h, t, action) ==
    [account_hash |-> h, timestamp |-> t, action |-> action]

\* License.account_hash_changes_count
account_hash_changes_count(l) == Len(l.account_hash_history)

\* License.reset_daily_usage_if_needed: the in-memory effect
NeedsReset(l, t) == l.last_reset_date < Date(t)

\* mutant: the new day is recorded but the counter is not cleared
ResetDaily_KeepCount(l, t) ==
    IF NeedsReset(l, t) THEN [l EXCEPT !.last_reset_date = Date(t)] ELSE l

ResetDaily(l, t) ==
    IF NeedsReset(l, t)
    THEN [l EXCEPT !.daily_usage_count = 0, !.last_reset_date = Date(t)]
    ELSE l

\* mutant: the first use keeps the trade mode set at creation
BindFirstUse_KeepMode(l, system_hash, mode, broker_server, account_hash, t) ==
    LET l1 == [l EXCEPT !.first_used_at = t, !.system_hash = system_hash]
        l2 == IF Truthy(broker_server)
              THEN [l1 EXCEPT !.broker_server = broker_server] ELSE l1
    IN  IF Truthy(account_hash)
        THEN [l2 EXCEPT !.account_hash = account_hash,
                        !.account_hash_history =
                            Append(@, HistoryEntry(account_hash, t, "initial_set"))]
        ELSE l2

\* License.bind_account after the reset: the in-memory effect up to save()
\* (account_hash is NULL when the view passed None)
BindFirstUse(l, system_hash, mode, broker_server, account_hash, t) ==
    LET l1 == [l EXCEPT !.first_used_at = t,
                        !.system_hash = system_hash,
                        !.account_trade_mode = mode]
        l2 == IF Truthy(broker_server)
              THEN [l1 EXCEPT !.broker_server = broker_server] ELSE l1
    IN  IF Truthy(account_hash)
        THEN [l2 EXCEPT !.account_hash = account_hash,
                        !.account_hash_history =
                            Append(@, HistoryEntry(account_hash, t, "initial_set"))]
        ELSE l2

\* mutant: the new value is logged before the old one
BindLater_Swapped(l, account_hash, t) ==
    IF Truthy(account_hash) /\ account_hash # l.account_hash
    THEN LET h1 == Append(l.account_hash_history,
                          HistoryEntry(account_hash, t, "updated"))
         IN  [l EXCEPT !.account_hash = account_hash,
                       !.account_hash_history =
                           IF Truthy(l.account_hash)
                           THEN Append(h1, HistoryEntry(l.account_hash, t,
                                                        "replaced"))
                           ELSE h1]
    ELSE l

\* mutant: the old value is not logged when it is replaced
BindLater_NoReplaced(l, account_hash, t) ==
    IF Truthy(account_hash) /\ account_hash # l.account_hash
    THEN [l EXCEPT !.account_hash = account_hash,
                   !.account_hash_history =
                       Append(@, HistoryEntry(account_hash, t, "updated"))]
    ELSE l

BindLater(l, account_hash, t) ==
    IF Truthy(account_hash) /\ account_hash # l.account_hash
    THEN LET h1 == IF Truthy(l.account_hash)
                   THEN Append(l.account_hash_history,
                               HistoryEntry(l.account_hash, t, "replaced"))
                   ELSE l.account_hash_history
         IN  [l EXCEPT !.account_hash = account_hash,
                       !.account_hash_history =
                           Append(h1, HistoryEntry(account_hash, t, "updated"))]
    ELSE l

BindCount(l, t) ==
    [l EXCEPT !.last_used_at = t,
              !.usage_count = @ + 1,
              !.daily_usage_count = @ + 1]

\* mutant: every call binds as if it were the first
BindMutate_Rebind(l, system_hash, mode, broker_server, account_hash, t) ==
    BindCount(BindFirstUse(l, system_hash, mode, broker_server, account_hash, t),
              t)

BindMutate(l, system_hash, mode, broker_server, account_hash, t) ==
    BindCount(IF l.first_used_at = NoTime
              THEN BindFirstUse(l, system_hash, mode, broker_server, account_hash, t)
              ELSE BindLater(l, account_hash, t),
              t)

(* ------------------------------- store --------------------------------- *)
\* mutant: the column carries no unique constraint
IntegrityError_Off(store, k, l) == FALSE

\* unique=True on system_hash: the UPDATE of row k with copy l is refused
\* (IntegrityError) when another row holds the same non-null value
IntegrityError(store, k, l) ==
    /\ l.system_hash # NULL
    /\ \E k2 \in Licenses \ {k} : store[k2].system_hash = l.system_hash

\* mutant: first_used_at is left out of the UPDATE
SaveAll_SkipFirstUsed(store, k, l) ==
    [store EXCEPT ![k] = [l EXCEPT !.first_used_at = store[k].first_used_at]]

\* Model.save(): every column of the copy is written to the row
SaveAll(store, k, l) == [store EXCEPT ![k] = l]

\* mutant: the UPDATE of the reset is not restricted to the row
SaveDaily_AllRows(store, k, l) ==
    [k2 \in Licenses |->
        [store[k2] EXCEPT !.daily_usage_count = l.daily_usage_count,
                          !.last_reset_date = l.last_reset_date]]

\* Model.save(update_fields=['daily_usage_count', 'last_reset_date'])
SaveDaily(store, k, l) ==
    [store EXCEPT ![k].daily_usage_count = l.daily_usage_count,
                  ![k].last_reset_date = l.last_reset_date]

(* ------------------------------ requests ------------------------------- *)
Request(k, s, m, b, a, ts) ==
    [ license_key |-> k, system_hash |-> s, account_trade_mode |-> m,
      broker_server |-> b, account_hash |-> a, timestamp |-> ts ]

\* well-formed request bodies; broker_server and account_hash may be absent
\* (MISSING) or blank
WellFormed ==
    { Request(k, s, m, b, a, TRUE) :
        k \in Licenses \cup {UnknownKey}, s \in SystemHashes,
        m \in ACCOUNT_TRADE_MODES, b \in Brokers \cup {MISSING},
        a \in AccountHashes \cup {MISSING, ""} }

\* request bodies with one required field absent or out of range
Malformed ==
    { Request(MISSING, "S1", 0, "B1", "A1", TRUE),
      Request("K1", MISSING, 0, "B1", "A1", TRUE),
      Request("K1", "S1", MissingMode, "B1", "A1", TRUE),
      Request("K1", "S1", BadMode, "B1", "A1", TRUE),
      Request("K1", "S1", 0, "B1", "A1", FALSE) }

Requests == WellFormed \cup Malformed

\* mutant: account_trade_mode is an IntegerField without choices
SerializerValid_AnyMode(r) ==
    /\ r.license_key # MISSING /\ r.license_key # ""
    /\ r.system_hash # MISSING /\ r.system_hash # ""
    /\ r.account_trade_mode # MissingMode
    /\ r.timestamp

\* BotValidationRequestSerializer.is_valid()
SerializerValid(r) ==
    /\ r.license_key # MISSING /\ r.license_key # ""
    /\ r.system_hash # MISSING /\ r.system_hash # ""
    /\ r.account_trade_mode \in ACCOUNT_TRADE_MODES
    /\ r.timestamp

\* serializer.validated_data.get(field, '')
GetOrBlank(v) == IF v = MISSING THEN "" ELSE v

\* account_hash if account_hash else None
OrNone(v) == IF Truthy(v) THEN v ELSE NULL

\* the locals of post() read from serializer.validated_data
Validated(r) ==
    [ license_key |-> r.license_key, system_hash |-> r.system_hash,
      account_trade_mode |-> r.account_trade_mode,
      broker_server |-> GetOrBlank(r.broker_server),
      account_hash |-> GetOrBlank(r.account_hash) ]

NoRequest ==
    [ license_key |-> MISSING, system_hash |-> MISSING,
      account_trade_mode |-> MissingMode,
      broker_server |-> "", account_hash |-> "" ]
NoObj == NewLicense(0, 0)

(* ------------------------------ responses ------------------------------ *)
\* the fixed message texts of post(); a message is its text and the values
\* formatted into it
MessageText(code) ==
    CASE code = "INVALID_LICENSE" -> "Invalid license key"
      [] code = "LICENSE_EXPIRED" -> "License has expired"
      [] code = "LICENSE_INACTIVE" -> "License is inactive"
      [] code = "NO_CONFIGURATION" ->
            "No trading configuration assigned to this license"
      [] code = "TRADE_MODE_MISMATCH" ->
            "Account trade mode mismatch. Expected {}, got {}"
      [] code = "INTERNAL_ERROR" ->
            "Internal server error during license validation"
      [] OTHER -> ""

Failure(code, http_status) ==
    [ success |-> FALSE, code |-> code, status |-> http_status,
      message |-> [text |-> MessageText(code), args |-> << >>],
      usage_count |-> 0, daily_usage |-> 0,
      first_time_use |-> FALSE, account_login_changed |-> FALSE ]

\* BotValidationAPIView.get_friendly_validation_message: the message of the
\* first field in error
get_friendly_validation_message(r) ==
    IF r.license_key = MISSING \/ r.license_key = ""
    THEN "You should enter a license key"
    ELSE IF r.system_hash = MISSING \/ r.system_hash = ""
    THEN "System hash is required"
    ELSE IF r.account_trade_mode \notin ACCOUNT_TRADE_MODES
    THEN "Account trade mode is required"
    ELSE IF ~ r.timestamp THEN "Timestamp is required"
    ELSE "Some required data is missing"

\* the success body with its license_info block
Success(l) ==
    [ success |-> TRUE, code |-> "OK", status |-> 200,
      message |-> [text |-> "License validated successfully", args |-> << >>],
      usage_count |-> l.usage_count, daily_usage |-> l.daily_usage_count,
      first_time_use |-> (l.usage_count = 1),
      account_login_changed |-> (account_hash_changes_count(l) > 1) ]

NoResponse == Failure("NONE", 0)

(* -------------------------------- Init --------------------------------- *)
\* no request is in flight and the clock is at 0
InitIdle ==
    /\ now = 0
    /\ pc = [w \in Workers |-> "idle"]
    /\ req = [w \in Workers |-> NoRequest]
    /\ obj = [w \in Workers |-> NoObj]
    /\ bnow = [w \in Workers |-> NoTime]
    /\ resp = [w \in Workers |-> NoResponse]
    /\ seen = [w \in Workers |-> NoObj]
    /\ tchk = [w \in Workers |-> NoTime]
    /\ wrote = [w \in Workers |-> FALSE]
    /\ succ = [k \in Licenses |-> 0]
    /\ ftu = [k \in Licenses |-> 0]
    /\ granted = [k \in Licenses |-> {}]
    /\ bound = [k \in Licenses |-> {}]
    /\ calls = 0
    /\ side = 0
    /\ apc = "idle"
    /\ alic = NULL
    /\ aobj = NoObj

InitState ==
    /\ db = [k \in Licenses |->
                NewLicense(IF k = "K1" THEN ExpiresSoon ELSE ExpiresLate, 0)]
    /\ InitIdle

Init == InitState /\ quota = MaxCalls

(* ----------------------- BotValidationAPIView.post --------------------- *)
Busy(w) == pc[w] \notin {"idle", "done"}

\* a request goes to the first free worker
WorkerIndex(w) == IF w = "w1" THEN 1 ELSE 2

\* hash values are opaque and interchangeable: S1 and A1 name the ones the
\* first request of a behaviour may carry
FirstNames(r) ==
    calls = 0 => r.system_hash # "S2" /\ r.account_hash # "A2"

\* a response is delivered before anything else happens
NoneDone == \A w \in Workers : pc[w] # "done"

\* the handler returns response r
Respond(w, r) ==
    /\ pc' = [pc EXCEPT ![w] = "done"]
    /\ resp' = [resp EXCEPT ![w] = r]

\* the error kind post() reports for a license that is not valid
InvalidCode(l, t) ==
    IF is_expired(l, t) THEN "LICENSE_EXPIRED"
    ELSE IF ~ l.is_active THEN "LICENSE_INACTIVE"
    ELSE "NO_CONFIGURATION"

\* mutant: the trade-mode check is missing
CheckLicense_NoMode(l, r, t) ==
    IF ~ is_valid(l, t) THEN Failure(InvalidCode(l, t), 401)
    ELSE IF ~ validate_system_hash(l, r.system_hash)
    THEN [Failure("SYSTEM_MISMATCH", 403) EXCEPT
            !.message.text = system_message(l, r.system_hash)]
    ELSE NoResponse

\* the checks of post() on the loaded row: the error response, or NoResponse
\* when every check passes
\* (`if not license_obj.is_valid`, validate_system_hash, the trade-mode check)
CheckLicense(l, r, t) ==
    IF ~ is_valid(l, t) THEN Failure(InvalidCode(l, t), 401)
    ELSE IF ~ validate_system_hash(l, r.system_hash)
    THEN [Failure("SYSTEM_MISMATCH", 403) EXCEPT
            !.message.text = system_message(l, r.system_hash)]
    ELSE IF Truthy(l.system_hash) /\ l.account_trade_mode # r.account_trade_mode
    THEN [Failure("TRADE_MODE_MISMATCH", 403) EXCEPT
            !.message.args = <<l.account_trade_mode, r.account_trade_mode>>]
    ELSE NoResponse

\* a request arrives: the serializer, License.objects.get and the checks on
\* the row just read
Receive(w, r) ==
    /\ pc[w] = "idle"
    /\ NoneDone
    /\ \A w2 \in Workers : WorkerIndex(w2) < WorkerIndex(w) => Busy(w2)
    /\ calls < quota
    /\ FirstNames(r)
    /\ (\E w2 \in Workers \ {w} : Busy(w2)) => side < MaxSide
    /\ calls' = calls + 1
    /\ side' = IF \E w2 \in Workers \ {w} : Busy(w2) THEN side + 1 ELSE side
    /\ IF ~ SerializerValid(r)
       THEN /\ Respond(w, [Failure("INVALID_REQUEST", 400) EXCEPT
                             !.message.text = get_friendly_validation_message(r)])
            /\ UNCHANGED <<req, obj, seen, tchk>>
       ELSE /\ req' = [req EXCEPT ![w] = Validated(r)]
            /\ IF r.license_key \notin Licenses
               THEN /\ Respond(w, Failure("INVALID_LICENSE", 401))
                    /\ UNCHANGED <<obj, seen, tchk>>
               ELSE /\ obj' = [obj EXCEPT ![w] = db[r.license_key]]
                    /\ seen' = [seen EXCEPT ![w] = db[r.license_key]]
                    /\ tchk' = [tchk EXCEPT ![w] = now]
                    /\ IF CheckLicense(db[r.license_key], r, now) # NoResponse
                       THEN Respond(w, CheckLicense(db[r.license_key], r, now))
                       ELSE /\ pc' = [pc EXCEPT ![w] = "bind"]
                            /\ resp' = resp
    /\ UNCHANGED <<db, now, bnow, wrote, ghostVars, quota, adminVars>>

\* bind_account up to and including reset_daily_usage_if_needed(); its two
\* reads of the clock (`now` and the reset's `today`) follow each other
\* directly and are one instant here
BindReset(w) ==
    /\ pc[w] = "bind"
    /\ NoneDone
    /\ bnow' = [bnow EXCEPT ![w] = now]
    /\ obj' = [obj EXCEPT ![w] = ResetDaily(@, now)]
    /\ IF NeedsReset(obj[w], now)
       THEN /\ db' = SaveDaily(db, req[w].license_key, ResetDaily(obj[w], now))
            /\ wrote' = [wrote EXCEPT ![w] = TRUE]
       ELSE UNCHANGED <<db, wrote>>
    /\ pc' = [pc EXCEPT ![w] = "save"]
    /\ UNCHANGED <<now, req, resp, seen, tchk, ghostVars, calls, quota, side,
                   adminVars>>

\* the rest of bind_account with its save(), then the response; an
\* IntegrityError raised by save() is caught by `except Exception`
BindSave(w) ==
    /\ pc[w] = "save"
    /\ NoneDone
    /\ LET k == req[w].license_key
           l == BindMutate(obj[w], req[w].system_hash,
                           req[w].account_trade_mode,
                           req[w].broker_server,
                           OrNone(req[w].account_hash),
                           bnow[w])
       IN  /\ obj' = [obj EXCEPT ![w] = l]
           /\ IF IntegrityError(db, k, l)
              THEN /\ Respond(w, Failure("INTERNAL_ERROR", 500))
                   /\ UNCHANGED <<db, wrote, ghostVars>>
              ELSE /\ db' = SaveAll(db, k, l)
                   /\ wrote' = [wrote EXCEPT ![w] = TRUE]
                   /\ IF l.trading_configuration = NULL
                      THEN /\ Respond(w, Failure("NO_CONFIGURATION", 500))
                           /\ UNCHANGED ghostVars
                      ELSE /\ Respond(w, Success(l))
                           /\ succ' = [succ EXCEPT ![k] = @ + 1]
                           /\ ftu' = [ftu EXCEPT ![k] =
                                         IF Success(l).first_time_use
                                         THEN @ + 1 ELSE @]
                           /\ granted' = [granted EXCEPT ![k] =
                                             @ \cup {req[w].system_hash}]
                           /\ bound' = [bound EXCEPT ![k] =
                                           @ \cup {<<req[w].system_hash,
                                                     req[w].account_trade_mode>>}]
    /\ UNCHANGED <<now, req, seen, tchk, bnow, calls, quota, side, adminVars>>

\* the response has been sent; the worker is free again
Return(w) ==
    /\ pc[w] = "done"
    /\ pc' = [pc EXCEPT ![w] = "idle"]
    /\ req' = [req EXCEPT ![w] = NoRequest]
    /\ obj' = [obj EXCEPT ![w] = NoObj]
    /\ bnow' = [bnow EXCEPT ![w] = NoTime]
    /\ resp' = [resp EXCEPT ![w] = NoResponse]
    /\ seen' = [seen EXCEPT ![w] = NoObj]
    /\ tchk' = [tchk EXCEPT ![w] = NoTime]
    /\ wrote' = [wrote EXCEPT ![w] = FALSE]
    /\ UNCHANGED <<db, now, ghostVars, calls, quota, side, adminVars>>

(* --------------------------- administration ---------------------------- *)
\* get_object() of an administrative request on row k
AdminGet(k) ==
    /\ apc = "idle"
    /\ NoneDone
    /\ side < MaxSide
    /\ side' = side + 1
    /\ apc' = "loaded"
    /\ alic' = k
    /\ aobj' = db[k]
    /\ UNCHANGED <<db, now, botVars>>

AdminDone ==
    /\ apc' = "idle"
    /\ alic' = NULL
    /\ aobj' = NoObj
    /\ side' = side

\* full save() of the administrative copy
AdminSave(l) ==
    db' = IF IntegrityError(db, alic, l) THEN db ELSE SaveAll(db, alic, l)

\* LicenseViewSet.assign_configuration with configuration_id = c
AssignConfiguration(c) ==
    /\ apc = "loaded"
    /\ NoneDone
    /\ IF c \in Configs
       THEN AdminSave([aobj EXCEPT !.trading_configuration = c])
       ELSE db' = db
    /\ AdminDone
    /\ UNCHANGED <<now, botVars>>

\* the admin change form saved with is_active and trading_configuration as
\* entered (the other editable fields are posted back as loaded)
AdminChange(active, c) ==
    /\ apc = "loaded"
    /\ NoneDone
    /\ AdminSave([aobj EXCEPT !.is_active = active,
                              !.trading_configuration = c])
    /\ AdminDone
    /\ UNCHANGED <<now, botVars>>

\* cleanup_expired: one UPDATE of is_active over the filtered rows
CleanupExpired(days, dry_run) ==
    /\ apc = "idle"
    /\ NoneDone
    /\ side < MaxSide
    /\ side' = side + 1
    /\ db' = IF dry_run THEN db
             ELSE [k \in Licenses |->
                     IF db[k].expires_at < now - days * DayLen /\ db[k].is_active
                     THEN [db[k] EXCEPT !.is_active = FALSE]
                     ELSE db[k]]
    /\ UNCHANGED <<now, botVars, apc, alic, aobj>>

(* -------------------------------- clock -------------------------------- *)
Tick ==
    /\ now < MaxTime
    /\ NoneDone
    /\ now' = now + 1
    /\ UNCHANGED <<db, botVars, side, adminVars>>

(* ----------------------------- specification --------------------------- *)
Next ==
    \/ \E w \in Workers, r \in Requests : Receive(w, r)
    \/ \E w \in Workers : BindReset(w)
    \/ \E w \in Workers : BindSave(w)
    \/ \E w \in Workers : Return(w)
    \/ \E k \in Licenses : AdminGet(k)
    \/ \E c \in Configs \cup {NULL, InactiveConfig} : AssignConfiguration(c)
    \/ \E a \in BOOLEAN, c \in Configs \cup {NULL} : AdminChange(a, c)
    \/ \E d \in {0, 1}, dry \in BOOLEAN : CleanupExpired(d, dry)
    \/ Tick

Spec == Init /\ [][Next]_vars

\* validation calls alone: no administrative operation runs
NextBots ==
    \/ \E w \in Workers, r \in Requests : Receive(w, r)
    \/ \E w \in Workers : BindReset(w)
    \/ \E w \in Workers : BindSave(w)
    \/ \E w \in Workers : Return(w)
    \/ Tick

SpecBots == Init /\ [][NextBots]_vars

\* repeated validation of one license: up to MaxRepeat calls for K2, with or
\* without an account_hash
RepeatRequests ==
    { Request("K2", s, m, MISSING, a, TRUE) :
        s \in SystemHashes, m \in {0, 1}, a \in AccountHashes \cup {MISSING} }

InitRepeat == InitState /\ quota = MaxRepeat

NextRepeat ==
    \/ \E w \in Workers, r \in RepeatRequests : Receive(w, r)
    \/ \E w \in Workers : BindReset(w)
    \/ \E w \in Workers : BindSave(w)
    \/ \E w \in Workers : Return(w)
    \/ Tick

SpecRepeat == InitRepeat /\ [][NextRepeat]_vars

\* the derived properties of a row, read at any time: the rows are a license
\* as created at time 0 with expires_at at once, 30 days or 365 days ahead,
\* left unbound or bound by one validation with or without account_hash,
\* active or deactivated
StatusExpiries == {ExpiresSoon, 30 * DayLen, 365 * DayLen}

StatusRows(system_hash) ==
    { [l EXCEPT !.is_active = a] :
        l \in UNION { {NewLicense(e, 0)} \cup
                      { BindMutate(NewLicense(e, 0), system_hash, 0, "", h, 0) :
                          h \in {NULL, "A1"} } : e \in StatusExpiries },
        a \in BOOLEAN }

InitStatus ==
    /\ \E r1 \in StatusRows("S1"), r2 \in StatusRows("S2") :
          db = [k \in Licenses |-> IF k = "K1" THEN r1 ELSE r2]
    /\ InitIdle
    /\ quota = 0

NextStatus == Tick

SpecStatus == InitStatus /\ [][NextStatus]_vars

(* ------------------------------- claims -------------------------------- *)
\* the call of worker w named a row of the table
Loaded(w) == req[w].license_key \in Licenses
Key(w) == req[w].license_key
\* the call of worker w has left the stored row exactly as it read it
Untouched(w) == ~ wrote[w] /\ db[Key(w)] = seen[w]
ValidityErrors == {"LICENSE_EXPIRED", "LICENSE_INACTIVE", "NO_CONFIGURATION"}

\* a finished call that read a bound row and supplied another system hash
C1_Case(w) ==
    /\ pc[w] = "done"
    /\ Loaded(w)
    /\ Truthy(seen[w].system_hash)
    /\ req[w].system_hash # seen[w].system_hash

\* C1 as stated: a validation call that supplies a system_hash different from
\* the non-null stored one fails with SystemMismatch and leaves the record
\* unchanged.
C1_Original ==
    \A w \in Workers :
        C1_Case(w) => resp[w].code = "SYSTEM_MISMATCH" /\ Untouched(w)

\* C1 amended: such a call fails and leaves the record unchanged; the error is
\* SystemMismatch when the license is active, unexpired and has a
\* configuration, and the error of the validity check otherwise.
C1_Amended ==
    \A w \in Workers :
        C1_Case(w) =>
            /\ ~ resp[w].success
            /\ Untouched(w)
            /\ IF /\ seen[w].is_active
                  /\ tchk[w] <= seen[w].expires_at
                  /\ seen[w].trading_configuration # NULL
               THEN resp[w].code = "SYSTEM_MISMATCH"
               ELSE resp[w].code \in ValidityErrors

\* C1 witness: a foreign hash on a valid bound license was answered SystemMismatch
C1_Witness ==
    \E w \in Workers : C1_Case(w) /\ resp[w].code = "SYSTEM_MISMATCH"

\* C2 as stated: of two validation calls for the same unbound license with two
\* different system hashes exactly one succeeds; a license never answers
\* success to two different system hashes.
C2_Claim ==
    \A k \in Licenses : Cardinality(granted[k]) <= 1

\* C3 as stated: a stored system_hash, once non-null, keeps its value in every
\* step.
C3_Claim ==
    [][\A k \in Licenses :
          db[k].system_hash # NULL => db'[k].system_hash = db[k].system_hash]_vars

\* C4: no two distinct licenses hold the same non-null system_hash.
C4_Unique ==
    \A k1, k2 \in Licenses :
        k1 # k2 /\ db[k1].system_hash # NULL
            => db[k1].system_hash # db[k2].system_hash

\* C4 witness: a first bind to a hash another license holds has been refused
\* by the store
C4_Witness ==
    \E w \in Workers :
        /\ pc[w] = "done"
        /\ Loaded(w)
        /\ resp[w].code = "INTERNAL_ERROR"
        /\ seen[w].system_hash = NULL
        /\ \E k2 \in Licenses \ {Key(w)} : db[k2].system_hash = req[w].system_hash

\* C5 as stated: once every call has returned, usage_count has grown by exactly
\* the number of success responses.
C5_Claim ==
    (\A w \in Workers : pc[w] = "idle")
        => \A k \in Licenses : db[k].usage_count = succ[k]

\* C6 as stated: a validation call that returns a failure response has written
\* nothing to the store.
C6_Claim ==
    \A w \in Workers :
        pc[w] = "done" /\ ~ resp[w].success => ~ wrote[w]

\* the checks found the row read by worker w active, unexpired and configured
SeenValid(w) ==
    /\ seen[w].is_active
    /\ tchk[w] <= seen[w].expires_at
    /\ seen[w].trading_configuration # NULL

\* a finished call that read an unbound, active, unexpired, configured row
C7_Case(w) ==
    /\ pc[w] = "done"
    /\ Loaded(w)
    /\ ~ Truthy(seen[w].system_hash)
    /\ SeenValid(w)

\* the stored row as the binding call of worker w must leave it
C7_Bound(w) ==
    LET l == db[Key(w)] IN
    /\ l.system_hash = req[w].system_hash
    /\ l.account_trade_mode = req[w].account_trade_mode
    /\ l.first_used_at # NoTime
    /\ l.first_used_at = bnow[w]
    /\ l.broker_server = IF Truthy(req[w].broker_server)
                         THEN req[w].broker_server ELSE seen[w].broker_server
    /\ l.usage_count = 1
    /\ IF Truthy(req[w].account_hash)
       THEN /\ l.account_hash = req[w].account_hash
            /\ l.account_hash_history =
                  << HistoryEntry(req[w].account_hash, bnow[w], "initial_set") >>
       ELSE /\ l.account_hash = NULL
            /\ l.account_hash_history = << >>

\* C7 as stated: the first validation of an unbound, active, unexpired,
\* configured license succeeds for any system_hash and trade mode and leaves
\* the record bound as described.
C7_Original ==
    \A w \in Workers : C7_Case(w) => resp[w].success /\ C7_Bound(w)

\* C7 amended: it succeeds and binds as described for any trade mode and any
\* system_hash that no other license holds when the call saves; when another
\* license holds the hash the call fails with InternalError and the license
\* is not bound to it.
C7_Amended ==
    \A w \in Workers :
        C7_Case(w) =>
            IF \E k2 \in Licenses \ {Key(w)} :
                  db[k2].system_hash = req[w].system_hash
            THEN /\ resp[w].code = "INTERNAL_ERROR"
                 /\ db[Key(w)].system_hash # req[w].system_hash
            ELSE resp[w].success /\ C7_Bound(w)

\* C7 witness: a binding call with account_hash, broker_server and a trade
\* mode other than the one set at creation has succeeded
C7_Witness ==
    \E w \in Workers :
        /\ C7_Case(w)
        /\ resp[w].success
        /\ Truthy(req[w].account_hash)
        /\ Truthy(req[w].broker_server)
        /\ req[w].account_trade_mode # seen[w].account_trade_mode

\* C8 as stated: of the success responses of one license exactly the first
\* reports first_time_use = true.
C8_Claim ==
    \A k \in Licenses : succ[k] >= 1 => ftu[k] = 1

\* a finished call that read a bound row and supplied its system hash with
\* another trade mode
C9_Case(w) ==
    /\ pc[w] = "done"
    /\ Loaded(w)
    /\ Truthy(seen[w].system_hash)
    /\ req[w].system_hash = seen[w].system_hash
    /\ req[w].account_trade_mode # seen[w].account_trade_mode

\* on an unbound row no trade mode is refused, and the mode of a successful
\* call is the stored one
C9_Unbound(w) ==
    pc[w] = "done" /\ Loaded(w) /\ ~ Truthy(seen[w].system_hash)
        => /\ resp[w].code # "TRADE_MODE_MISMATCH"
           /\ resp[w].success
                 => db[Key(w)].account_trade_mode = req[w].account_trade_mode

\* C9 as stated: on a bound license the bound hash with another trade mode
\* fails with TradeModeMismatch and changes nothing; on an unbound license any
\* trade mode is accepted and becomes the stored one.
C9_Original ==
    \A w \in Workers :
        /\ C9_Case(w) => resp[w].code = "TRADE_MODE_MISMATCH" /\ Untouched(w)
        /\ C9_Unbound(w)

\* C9 amended: on a bound license such a call fails and changes nothing, with
\* TradeModeMismatch when the license is active, unexpired and configured and
\* with the error of the validity check otherwise.
C9_Amended ==
    \A w \in Workers :
        /\ C9_Case(w) =>
              /\ ~ resp[w].success
              /\ Untouched(w)
              /\ IF SeenValid(w)
                 THEN resp[w].code = "TRADE_MODE_MISMATCH"
                 ELSE resp[w].code \in ValidityErrors
        /\ C9_Unbound(w)

\* C9 witness: the mode stored by the bind differs from the mode set at
\* creation, and a later call with the bound hash and another mode is refused
C9_Witness ==
    \E w \in Workers :
        /\ C9_Case(w)
        /\ resp[w].code = "TRADE_MODE_MISMATCH"
        /\ seen[w].account_trade_mode # 0

\* C10: a call whose checks run strictly after expires_at fails with
\* LicenseExpired and leaves the record unchanged, whatever the request and
\* the rest of the row; a call whose checks run at expires_at is not refused
\* as expired.
C10_Expired ==
    \A w \in Workers :
        Loaded(w) =>
            /\ tchk[w] > seen[w].expires_at =>
                  /\ pc[w] = "done"
                  /\ resp[w].code = "LICENSE_EXPIRED"
                  /\ Untouched(w)
            /\ tchk[w] = seen[w].expires_at => resp[w].code # "LICENSE_EXPIRED"

\* C10 witness: a call on an expired row that is also bound and inactive has
\* been answered LicenseExpired
C10_Witness ==
    \E w \in Workers :
        /\ pc[w] = "done"
        /\ Loaded(w)
        /\ tchk[w] > seen[w].expires_at
        /\ ~ seen[w].is_active
        /\ Truthy(seen[w].system_hash)
        /\ resp[w].code = "LICENSE_EXPIRED"

\* C11 as stated: a call on an inactive license fails with LicenseInactive and
\* one on an active license past expires_at with LicenseExpired: the error
\* kind is the one the derived status names, 'Inactive' before 'Expired'.
C11_Claim ==
    \A w \in Workers :
        pc[w] = "done" /\ Loaded(w) =>
            /\ status(seen[w], tchk[w]) = "Inactive"
                  => resp[w].code = "LICENSE_INACTIVE"
            /\ status(seen[w], tchk[w]) = "Expired"
                  => resp[w].code = "LICENSE_EXPIRED"

\* C12 as stated: no step of a validation call changes a stored is_active.
\* (The steps of validation calls are the steps that move a worker.)
C12_Claim ==
    [][pc' # pc =>
          \A k \in Licenses : db'[k].is_active = db[k].is_active]_vars

\* C13: a call that finds the configuration reference null fails and writes
\* nothing (no bind, no counter), whatever is_active, expiry, the binding and
\* the request are.
C13_NoConfig ==
    \A w \in Workers :
        Loaded(w) /\ seen[w].trading_configuration = NULL =>
            /\ pc[w] = "done"
            /\ ~ resp[w].success
            /\ Untouched(w)

\* C13 witness: a call on an active, unexpired, unbound row without
\* configuration has been refused
C13_Witness ==
    \E w \in Workers :
        /\ pc[w] = "done"
        /\ Loaded(w)
        /\ seen[w].trading_configuration = NULL
        /\ seen[w].is_active
        /\ tchk[w] <= seen[w].expires_at
        /\ ~ Truthy(seen[w].system_hash)
        /\ resp[w].code = "NO_CONFIGURATION"

\* the status code post() gives the denial of an inactive license
ClientDenialStatus ==
    CheckLicense([NoObj EXCEPT !.is_active = FALSE], NoRequest, 0).status

\* C14 as stated: a call on an active, unexpired license without configuration
\* fails with NoConfiguration under a status code other than the one of the
\* client-side denials.
C14_Claim ==
    \A w \in Workers :
        /\ pc[w] = "done"
        /\ Loaded(w)
        /\ seen[w].is_active
        /\ tchk[w] <= seen[w].expires_at
        /\ seen[w].trading_configuration = NULL
        => /\ resp[w].code = "NO_CONFIGURATION"
           /\ resp[w].status # ClientDenialStatus

\* C15 as stated: once a call with system_hash H and trade mode M has bound
\* the license (was answered success), a later call that supplies H and M on
\* the license still active, configured and unexpired succeeds.
C15_Claim ==
    \A w \in Workers :
        /\ pc[w] = "done"
        /\ Loaded(w)
        /\ SeenValid(w)
        /\ <<req[w].system_hash, req[w].account_trade_mode>> \in bound[Key(w)]
        => resp[w].success

\* a finished successful call that read a bound row
C16_Case(w) ==
    /\ pc[w] = "done"
    /\ Loaded(w)
    /\ resp[w].success
    /\ Truthy(seen[w].system_hash)

\* the call of worker w supplied an account_hash other than the one it read
C16_NewLogin(w) ==
    Truthy(req[w].account_hash) /\ req[w].account_hash # seen[w].account_hash

\* C16: a successful call on a bound license with a new non-empty
\* account_hash appends the old value as 'replaced' (if there was one), then
\* the new value as 'updated', and stores the new value; with the stored
\* value, an empty one or none it leaves history and account_hash as read.
C16_Login ==
    \A w \in Workers :
        C16_Case(w) =>
            LET l == db[Key(w)]
                old == seen[w].account_hash_history
                replaced == IF Truthy(seen[w].account_hash)
                            THEN << HistoryEntry(seen[w].account_hash, bnow[w],
                                                 "replaced") >>
                            ELSE << >>
                updated == << HistoryEntry(req[w].account_hash, bnow[w],
                                           "updated") >>
            IN  IF C16_NewLogin(w)
                THEN /\ l.account_hash = req[w].account_hash
                     /\ l.account_hash_history = old \o replaced \o updated
                ELSE /\ l.account_hash = seen[w].account_hash
                     /\ l.account_hash_history = old

\* C16 witness: a stored account_hash has been replaced by another one
C16_Witness ==
    \E w \in Workers :
        /\ C16_Case(w)
        /\ C16_NewLogin(w)
        /\ Truthy(seen[w].account_hash)

\* sequence p is a prefix of sequence q
IsPrefix(p, q) == Len(p) <= Len(q) /\ SubSeq(q, 1, Len(p)) = p

\* C17 as stated: in every step the stored account_hash_history before the
\* step is a prefix of the one after it.
C17_Claim ==
    [][\A k \in Licenses :
          IsPrefix(db[k].account_hash_history, db'[k].account_hash_history)]_vars

\* C18 as stated, as its step over one call: with the calls executed one after
\* another, a successful call lengthens account_hash_history by one when it
\* changes the stored account_hash and by nothing when it does not (so the
\* length stays equal to the number of changes).
C18_Claim ==
    \A w \in Workers :
        pc[w] = "done" /\ Loaded(w) /\ resp[w].success /\ side = 0 =>
            Len(db[Key(w)].account_hash_history)
                = Len(seen[w].account_hash_history)
                  + (IF db[Key(w)].account_hash # seen[w].account_hash
                     THEN 1 ELSE 0)

\* a finished successful call
C19_Case(w) == pc[w] = "done" /\ Loaded(w) /\ resp[w].success

\* C19: after a successful call on a day later than the last_reset_date it
\* read, daily_usage_count is 1 and last_reset_date is that day; on the same
\* day daily_usage_count is one more than the call read.
C19_Daily ==
    \A w \in Workers :
        C19_Case(w) =>
            LET l == db[Key(w)] IN
            IF seen[w].last_reset_date < Date(bnow[w])
            THEN /\ l.daily_usage_count = 1
                 /\ l.last_reset_date = Date(bnow[w])
            ELSE /\ l.daily_usage_count = seen[w].daily_usage_count + 1
                 /\ l.last_reset_date = seen[w].last_reset_date

\* C19 witness: a call on a new day found the counter of the day before
\* above zero
C19_Witness ==
    \E w \in Workers :
        /\ C19_Case(w)
        /\ seen[w].last_reset_date < Date(bnow[w])
        /\ seen[w].daily_usage_count > 0

\* C20 as stated: the reset is persisted in the same write as the increments:
\* every step that changes a stored last_reset_date also adds one to
\* usage_count and sets last_used_at to the time of the call.
C20_Claim ==
    [][\A k \in Licenses :
          db'[k].last_reset_date # db[k].last_reset_date =>
              /\ db'[k].usage_count = db[k].usage_count + 1
              /\ db'[k].last_used_at = now]_vars

\* C21 as stated: a success response reports account_login_changed = true
\* exactly when the call replaced a non-null stored account_hash by another
\* value.
C21_Claim ==
    \A w \in Workers :
        pc[w] = "done" /\ Loaded(w) /\ resp[w].success =>
            resp[w].account_login_changed
                = (/\ Truthy(seen[w].account_hash)
                   /\ db[Key(w)].account_hash # seen[w].account_hash)

\* a finished call that found its license and failed
C22_Case(w) == pc[w] = "done" /\ Loaded(w) /\ ~ resp[w].success

\* C22: a failure response carries neither stored hash, and a license that
\* differs from the one read in system_hash and account_hash only and fails
\* the same request with the same code gets the same message.
C22_Independent ==
    \A w \in Workers :
        C22_Case(w) =>
            /\ resp[w].message.text
                  \notin {seen[w].system_hash, seen[w].account_hash}
            /\ \A s \in SystemHashes \cup {NULL}, a \in AccountHashes \cup {NULL} :
                  LET other == CheckLicense([seen[w] EXCEPT !.system_hash = s,
                                                            !.account_hash = a],
                                            req[w], tchk[w])
                  IN  other.code = resp[w].code
                          => other.message = resp[w].message

\* C22 witness: a call with a foreign hash was refused by a license that
\* stores both a system_hash and an account_hash
C22_Witness ==
    \E w \in Workers :
        /\ C22_Case(w)
        /\ resp[w].code = "SYSTEM_MISMATCH"
        /\ Truthy(seen[w].account_hash)

\* the request bodies of the claim: license_key, system_hash or
\* account_trade_mode absent, or account_trade_mode outside 0, 1, 2
C23_Bodies ==
    { r \in Requests :
        \/ r.license_key = MISSING
        \/ r.system_hash = MISSING
        \/ r.account_trade_mode \notin ACCOUNT_TRADE_MODES }

\* C23: the step that receives such a body answers InvalidRequest (400),
\* loads no license and leaves the store as it is.
C23_FailFast ==
    [][\A w \in Workers, r \in C23_Bodies :
          Receive(w, r) =>
              /\ pc'[w] = "done"
              /\ resp'[w].code = "INVALID_REQUEST"
              /\ resp'[w].status = 400
              /\ obj'[w] = NoObj /\ seen'[w] = NoObj
              /\ db' = db]_vars

\* C23 witness: a body was refused as invalid while the license K1 it may
\* name is valid
C23_Witness ==
    \E w \in Workers :
        /\ pc[w] = "done"
        /\ resp[w].code = "INVALID_REQUEST"
        /\ resp[w].message.text # "You should enter a license key"
        /\ is_valid(db["K1"], now)

\* a step of the call of worker w leaves every row but its own as it is
C24_Frame(w) ==
    pc'[w] # pc[w] =>
        \A k \in Licenses \ {req'[w].license_key} : db'[k] = db[k]

\* the step in which the call of worker w on an existing license ends
C24_Ends(w) ==
    pc'[w] = "done" /\ pc[w] # "done" /\ req'[w].license_key \in Licenses

\* the outcome the row read, the request and the time of the checks decide
C24_Own(l, r, t) ==
    IF CheckLicense(l, r, t) # NoResponse
    THEN CheckLicense(l, r, t).code ELSE "OK"

\* C24 as stated: a call changes no row but its own, and its outcome is
\* decided by its own row and the request alone.
C24_Original ==
    [][\A w \in Workers :
          /\ C24_Frame(w)
          /\ C24_Ends(w) =>
                resp'[w].code = C24_Own(seen'[w], req'[w], tchk'[w])]_vars

\* C24 amended: a call changes no row but its own, and its outcome is decided
\* by its own row and the request, except that a call whose save would store
\* a system_hash another license holds fails with InternalError.
C24_Amended ==
    [][\A w \in Workers :
          /\ C24_Frame(w)
          /\ C24_Ends(w) =>
                resp'[w].code =
                    IF /\ C24_Own(seen'[w], req'[w], tchk'[w]) = "OK"
                       /\ \E k \in Licenses \ {req'[w].license_key} :
                             db[k].system_hash = obj'[w].system_hash
                    THEN "INTERNAL_ERROR"
                    ELSE C24_Own(seen'[w], req'[w], tchk'[w])]_vars

\* C24 witness: a call has bound its license while the other license is
\* bound to another hash, after a daily reset
C24_Witness ==
    \E w \in Workers :
        /\ pc[w] = "done"
        /\ Loaded(w)
        /\ resp[w].success
        /\ seen[w].last_reset_date < db[Key(w)].last_reset_date
        /\ \E k \in Licenses \ {Key(w)} : db[k].system_hash # NULL

\* the binding and usage fields of a row
C25_Binding(l) ==
    << l.system_hash, l.account_hash, l.account_hash_history, l.first_used_at,
       l.usage_count, l.daily_usage_count >>

\* C25 as stated: no step of assign_configuration or cleanup_expired changes
\* the binding or the usage counters of a license, whatever validation calls
\* are in flight.
C25_Claim ==
    [][(\/ \E c \in Configs \cup {NULL, InactiveConfig} : AssignConfiguration(c)
        \/ \E d \in {0, 1}, dry \in BOOLEAN : CleanupExpired(d, dry))
       => \A k \in Licenses : C25_Binding(db'[k]) = C25_Binding(db[k])]_vars

C27_Claim ==
    \A k \in Licenses :
        db[k] = NewLicense(now + 365 * DayLen, 0) =>
            k # "" /\ status(db[k], now) = "Active"

\* first_used_at of row l is null exactly when its system_hash is
C28_Row(l) == (l.first_used_at = NoTime) = (~ Truthy(l.system_hash))

\* C28: in every stored row and in every copy a call works on, first_used_at
\* is null exactly when system_hash is null: the gate of post() and the
\* branch of bind_account agree on the first use.
C28_Agree ==
    /\ \A k \in Licenses : C28_Row(db[k])
    /\ \A w \in Workers : Busy(w) => C28_Row(obj[w])

\* C28 witness: a call on a row with system_hash and first_used_at set has
\* succeeded
C28_Witness ==
    \E w \in Workers :
        /\ pc[w] = "done"
        /\ Loaded(w)
        /\ resp[w].success
        /\ Truthy(seen[w].system_hash)
        /\ seen[w].first_used_at # NoTime
        /\ db[Key(w)].first_used_at = seen[w].first_used_at

\* the shape of account_hash and its history in row l
C29_Row(l) ==
    LET h == l.account_hash_history IN
    /\ (h = << >>) = (l.account_hash = NULL)
    /\ h # << >> =>
          /\ h[Len(h)].account_hash = l.account_hash
          /\ h[Len(h)].action \in {"initial_set", "updated"}
    /\ \A i \in 1..Len(h) : h[i].action = "initial_set" => i = 1

\* C29: as long as the calls run one at a time, every stored row has that
\* shape after every step, and a stored account_hash that is non-null stays
\* non-null.
C29_Sequential ==
    [][side' = 0 =>
          \A k \in Licenses :
              /\ C29_Row(db'[k])
              /\ db[k].account_hash # NULL => db'[k].account_hash # NULL]_vars

\* C29 witness: calls one at a time have set, then replaced an account_hash
C29_Witness ==
    /\ side = 0
    /\ \E k \in Licenses : Len(db[k].account_hash_history) = 3

\* C30: a successful call on a bound license leaves system_hash,
\* account_trade_mode, broker_server, first_used_at, expires_at, is_active
\* and the configuration reference as it read them, whatever broker_server
\* the request carries.
C30_Frame ==
    \A w \in Workers :
        C16_Case(w) =>
            LET l == db[Key(w)] IN
            /\ l.system_hash = seen[w].system_hash
            /\ l.account_trade_mode = seen[w].account_trade_mode
            /\ l.broker_server = seen[w].broker_server
            /\ l.first_used_at = seen[w].first_used_at
            /\ l.expires_at = seen[w].expires_at
            /\ l.is_active = seen[w].is_active
            /\ l.trading_configuration = seen[w].trading_configuration

\* C30 witness: a successful call on a bound license carried a broker_server
\* other than the stored one
C30_Witness ==
    \E w \in Workers :
        /\ C16_Case(w)
        /\ Truthy(req[w].broker_server)
        /\ req[w].broker_server # seen[w].broker_server

====
